---------------------------- MODULE Spec2Model ----------------------------
(***************************************************************************)
(* A model of the Letta writing-agent examples:                            *)
(*   examples/writer/writing_agent.py        (class WritingAgent, main)    *)
(*   examples/writer/writing_agent_local.py  (class WritingAgent, main)    *)
(*   examples/writing/ultimate_simple.py     (create_writer, write_article)*)
(*                                                                         *)
(* Python strings are TLA+ strings; the Chinese literals of the source are *)
(* written as ASCII tags, the original is given in the comment beside each.*)
(* An f-string is the tuple of its template tag and the values that are    *)
(* interpolated into it, in order, so two formatted texts are equal        *)
(* exactly when template and every interpolated value are equal.           *)
(*                                                                         *)
(* The Letta server is the environment: `remote` is the list of agents it  *)
(* holds, each with its memory blocks; a remote call either raises an SDK  *)
(* error or returns, and the choice is nondeterministic.                   *)
(***************************************************************************)
EXTENDS Integers, Sequences, FiniteSets, TLC

VARIABLES
  script,    \* which file's WritingAgent / main is running
  writer,    \* the WritingAgent object: client, model, embedding, agent,
             \* writing_style, current_project; in ultimate_simple.py the
             \* module's (client, agent) pair
  ctor,      \* the arguments __init__ was called with
  remote,    \* server side: remote[i] = memory blocks of the agent with id i
  started,   \* history of the agent created last: the blocks it was created
             \* with, and of the start_writing_project calls that reached the
             \* server since: how many (0, 1, 2 for two or more), the
             \* arguments of the latest, whether every blocks.modify succeeded
  last,      \* the operation that ran last: name, arguments, object before,
             \* remote calls it issued, what it printed, how it ended
  pc,        \* main(): position in the try block and call phase
  locals,    \* main(): outline, research, content, polished, adjusted, progress
  calls,     \* main(): remote calls issued so far, oldest first
  stdout,    \* main(): what main and the handlers printed, oldest first
  environ    \* value of os.getenv("DEEPSEEK_API_KEY"), None when unset

vars == <<script, writer, ctor, remote, started, last, pc, locals, calls, stdout,
          environ>>

---------------------------------------------------------------------------
(* Bounds of the model                                                     *)

MaxAgents == 2      \* agents.create succeeds at most this often

---------------------------------------------------------------------------
(* Python values                                                           *)

None == "None"                 \* Python's None, for Optional[str] values
Unset == "<not passed>"        \* a keyword argument the caller left out

Truthy(s) == s \notin {None, ""}          \* `if s:` on an Optional[str]

Default(arg, d) == IF arg = Unset THEN d ELSE arg

NoAgent == [id |-> 0, name |-> None]      \* self.agent = None

HasAgent(w) == w.agent.id # 0             \* `if not self.agent` is false

\* The two files that define class WritingAgent and main()
Scripts == {"writing_agent", "writing_agent_local"}

\* Letta(...): the client is the keyword arguments it was built from.
Letta(base_url, token, timeout) ==
  [base_url |-> base_url, token |-> token, timeout |-> timeout]

\* __init__ handing base_url to the client also when a token is given
WritingAgentInit_both(s, base_url_arg, token_arg) ==
  LET base_url == Default(base_url_arg, "http://localhost:8283")
      token    == Default(token_arg, None)
  IN  [client |-> IF Truthy(token) THEN Letta(base_url, token, Unset)
                  ELSE Letta(base_url, Unset, IF s = "writing_agent" THEN Unset ELSE "120"),
       model |-> Unset, embedding |-> Unset,
       agent |-> NoAgent,
       writing_style |-> "professional, clear, logical",
       current_project |-> None]

\* WritingAgent.__init__(base_url="http://localhost:8283", token=None)
WritingAgentInit(s, base_url_arg, token_arg) ==
  LET base_url == Default(base_url_arg, "http://localhost:8283")
      token    == Default(token_arg, None)
  IN  IF s = "writing_agent"
      THEN [client |-> IF Truthy(token) THEN Letta(Unset, token, Unset)
                       ELSE Letta(base_url, Unset, Unset),
            model |-> Unset, embedding |-> Unset,
            agent |-> NoAgent,
            writing_style |-> "professional, clear, logical",
            current_project |-> None]
      ELSE [client |-> IF Truthy(token) THEN Letta(Unset, token, Unset)
                       ELSE Letta(base_url, Unset, "120"),
            model |-> IF Truthy(token) THEN "openai/gpt-4o-mini"
                      ELSE "deepseek/deepseek-chat",
            embedding |-> IF Truthy(token) THEN "openai/text-embedding-3-small"
                          ELSE "ollama/nomic-embed-text:latest",
            agent |-> NoAgent,
            writing_style |-> "professional, clear, logical",
            current_project |-> None]

---------------------------------------------------------------------------
(* Remote calls and the server                                             *)

\* A remote call: the client it goes through, the SDK method and its arguments.
Call(client, api, agent_id, block_label, body) ==
  [client |-> client, api |-> api, agent_id |-> agent_id,
   block_label |-> block_label, body |-> body]

NoCall == Call(None, None, 0, None, <<>>)

InCall(b) == b.call.api # None

\* What a remote call comes back with: a value, or an exception of the SDK.
Returned(v) == [ok |-> TRUE, value |-> v]
Raised == [ok |-> FALSE, value |-> "ApiError"]

CreateBlock(label, description, value) ==
  [label |-> label, description |-> description, value |-> value]

MessageCreate(role, content) == [role |-> role, content |-> content]

\* Messages a response can carry: what the model answered, what a tool returned
AssistantMessage == [message_type |-> "assistant_message", content |-> "text A"]
ToolReturnMessage == [message_type |-> "tool_return_message", content |-> "text B"]

\* response.messages of agents.messages.create: no message, one, or two
MessageLists ==
  { <<>>, <<AssistantMessage>>, <<AssistantMessage, ToolReturnMessage>>,
    <<ToolReturnMessage, AssistantMessage>> }

\* The blocks the server attaches to a new agent: label -> value.
BlocksOf(memory_blocks) ==
  [l \in {memory_blocks[i].label : i \in DOMAIN memory_blocks} |->
     (CHOOSE b \in {memory_blocks[i] : i \in DOMAIN memory_blocks} : b.label = l).value]

KnownAgent(r, id) == id \in DOMAIN r

\* The answers the server can give to a call, in server state r.
Responses(r, call) ==
  {Raised} \cup
  CASE call.api = "agents.create" ->
         IF Len(r) < MaxAgents
         THEN {Returned([id |-> Len(r) + 1, name |-> call.body.name])}
         ELSE {}
    [] call.api = "agents.blocks.modify" ->
         IF KnownAgent(r, call.agent_id) /\ call.block_label \in DOMAIN r[call.agent_id]
         THEN {Returned(None)} ELSE {}
    [] call.api = "agents.blocks.retrieve" ->
         IF KnownAgent(r, call.agent_id) /\ call.block_label \in DOMAIN r[call.agent_id]
         THEN {Returned([label |-> call.block_label,
                         value |-> r[call.agent_id][call.block_label]])}
         ELSE {}
    [] call.api = "agents.messages.create" ->
         IF KnownAgent(r, call.agent_id)
         THEN {Returned([messages |-> m]) : m \in MessageLists}
         ELSE {}
    [] OTHER -> {}

\* The server state after it answered resp to call.
Apply(r, call, resp) ==
  IF ~resp.ok THEN r
  ELSE CASE call.api = "agents.create" ->
              Append(r, BlocksOf(call.body.memory_blocks))
         [] call.api = "agents.blocks.modify" ->
              [r EXCEPT ![call.agent_id][call.block_label] = call.body.value]
         [] OTHER -> r

---------------------------------------------------------------------------
(* How a handler ends, and the two halves of a handler                     *)

Return(v) == [kind |-> "return", exc |-> None, value |-> v]
Raise(exc, msg) == [kind |-> "raise", exc |-> exc, value |-> msg]
Running == [kind |-> "running", exc |-> None, value |-> None]

\* "请先创建写作智能体"
CreateAgentFirst == Raise("ValueError", "create the writing agent first")

\* A handler up to its remote call: it ended without one, or it is in the call.
Ended(w, outcome, out) == [writer |-> w, call |-> NoCall, outcome |-> outcome, out |-> out]
Calling(w, call) == [writer |-> w, call |-> call, outcome |-> Running, out |-> <<>>]

\* A handler from the answer of its remote call to its end.
Finished(w, outcome, out) == [writer |-> w, outcome |-> outcome, out |-> out]

\* response.messages[0].content in place of messages[-1]
FirstContent(messages) ==
  IF Len(messages) = 0 THEN Raise("IndexError", "list index out of range")
  ELSE Return(messages[1].content)

\* response.messages[-1].content; IndexError on an empty list
LastContent(messages) ==
  IF Len(messages) = 0 THEN Raise("IndexError", "list index out of range")
  ELSE Return(messages[Len(messages)].content)

---------------------------------------------------------------------------
(* WritingAgent: the handlers.  X_call is handler X up to its remote call, *)
(* X_ret is X from the answer of that call to its end.  s is the script,   *)
(* w the object, a the arguments.                                          *)

SdkError == Raise("ApiError", "error of the SDK")

\* memory_blocks of create_writing_agent; the persona text interpolates writing_style
MemoryBlocks(s, writing_style) ==
  IF s = "writing_agent"
  THEN << CreateBlock("persona", Unset, <<"persona", writing_style>>),
          CreateBlock("writing_skills", Unset, <<"core writing skills">>),
          CreateBlock("current_project", Unset, <<"writing project">>) >>  \* "写作项目"
  ELSE << CreateBlock("persona", "persona description",
                      <<"persona (local)", writing_style>>),
          CreateBlock("writing_skills", "writing_skills description",
                      <<"core writing skills">>),
          CreateBlock("current_project", "current_project description",
                      <<"writing project">>) >>

\* create_writing_agent refusing to create a second agent
create_writing_agent_call_once(s, w, a) ==
  LET name  == Default(a.name, "writing assistant")
      style == Default(a.style, None)
      w1    == IF Truthy(style) THEN [w EXCEPT !.writing_style = style] ELSE w
  IN  IF HasAgent(w) THEN Ended(w1, Raise("ValueError", "agent already created"), <<>>)
      ELSE Calling(w1, Call(w1.client, "agents.create", 0, None,
                     [name |-> name,
                      memory_blocks |-> MemoryBlocks(s, w1.writing_style),
                      model |-> IF s = "writing_agent" THEN "openai/gpt-4o-mini"
                                ELSE w1.model,
                      embedding |-> IF s = "writing_agent"
                                    THEN "openai/text-embedding-3-small"
                                    ELSE w1.embedding,
                      tools |-> <<"web_search">>]))

create_writing_agent_call(s, w, a) ==
  LET name  == Default(a.name, "writing assistant")      \* "写作助手"
      style == Default(a.style, None)
      w1    == IF Truthy(style) THEN [w EXCEPT !.writing_style = style] ELSE w
  IN  Calling(w1, Call(w1.client, "agents.create", 0, None,
                [name |-> name,
                 memory_blocks |-> MemoryBlocks(s, w1.writing_style),
                 model |-> IF s = "writing_agent" THEN "openai/gpt-4o-mini"
                           ELSE w1.model,
                 embedding |-> IF s = "writing_agent" THEN "openai/text-embedding-3-small"
                               ELSE w1.embedding,
                 tools |-> <<"web_search">>]))

create_writing_agent_ret(s, w, a, resp) ==
  IF resp.ok
  THEN Finished([w EXCEPT !.agent = resp.value], Return(resp.value.id),
                <<"agent created", "agent id">>)
  ELSE Finished(w, SdkError, <<>>)

\* project_info of start_writing_project; a.now is datetime.now() as formatted
ProjectInfo(a) ==
  << "project info", a.project_name, a.project_type, a.target_audience,
     IF Truthy(Default(a.requirements, "")) THEN a.requirements ELSE "none",  \* '无'
     a.now >>

update_memory_block_call(w, block_label, new_value) ==
  Call(w.client, "agents.blocks.modify", w.agent.id, block_label,
       [value |-> new_value, read_only |-> FALSE])

\* except Exception as e: print(f"更新记忆块失败: {e}")
update_memory_block_ret(resp) ==
  IF resp.ok THEN <<>> ELSE <<"memory block update failed">>

\* start_writing_project storing the project name in place of project_info
start_writing_project_call_name(s, w, a) ==
  IF ~HasAgent(w) THEN Ended(w, CreateAgentFirst, <<>>)
  ELSE Calling(w, update_memory_block_call(w, "current_project", <<a.project_name>>))

start_writing_project_call(s, w, a) ==
  IF ~HasAgent(w) THEN Ended(w, CreateAgentFirst, <<>>)
  ELSE Calling(w, update_memory_block_call(w, "current_project", ProjectInfo(a)))

\* start_writing_project setting current_project only when the block was updated
start_writing_project_ret_if_updated(s, w, a, resp) ==
  Finished(IF resp.ok THEN [w EXCEPT !.current_project = a.project_name] ELSE w,
           Return(None),
           update_memory_block_ret(resp)
             \o <<"project started", "project type", "target audience">>)

\* start_writing_project with a _update_memory_block that lets the error through
start_writing_project_ret_uncaught(s, w, a, resp) ==
  IF resp.ok
  THEN Finished([w EXCEPT !.current_project = a.project_name], Return(None),
                <<"project started", "project type", "target audience">>)
  ELSE Finished(w, SdkError, <<>>)

start_writing_project_ret(s, w, a, resp) ==
  Finished([w EXCEPT !.current_project = a.project_name], Return(None),
           update_memory_block_ret(resp)
             \o <<"project started", "project type", "target audience">>)

\* client.agents.messages.create(agent_id=self.agent.id,
\*                               messages=[MessageCreate(role="user", content=prompt)])
SendPrompt(w, prompt) ==
  Calling(w, Call(w.client, "agents.messages.create", w.agent.id, None,
                  <<MessageCreate("user", prompt)>>))

\* x = response.messages[-1].content; print(header); print(x); return x
ReturnLastContent(w, resp, header) ==
  IF ~resp.ok THEN Finished(w, SdkError, <<>>)
  ELSE LET r == LastContent(resp.value.messages)
       IN  Finished(w, r, IF r.kind = "return" THEN <<header, r.value>> ELSE <<>>)

\* generate_outline without the `if not self.agent` check
generate_outline_call_unchecked(s, w, a) ==
  SendPrompt(w, << IF s = "writing_agent" THEN "outline prompt"
                   ELSE "outline prompt (local)",
                   a.topic, Default(a.structure_type, "standard") >>)

generate_outline_call(s, w, a) ==
  IF ~HasAgent(w) THEN Ended(w, CreateAgentFirst, <<>>)
  ELSE SendPrompt(w, << IF s = "writing_agent" THEN "outline prompt"
                        ELSE "outline prompt (local)",
                        a.topic, Default(a.structure_type, "standard") >>)

generate_outline_ret(s, w, a, resp) == ReturnLastContent(w, resp, "outline")

expand_content_call(s, w, a) ==
  IF ~HasAgent(w) THEN Ended(w, CreateAgentFirst, <<>>)
  ELSE SendPrompt(w, << "expand prompt", a.section, a.key_points,
                        Default(a.word_count, "500") >>)

expand_content_ret(s, w, a, resp) == ReturnLastContent(w, resp, "expanded content")

polish_content_call(s, w, a) ==
  LET focus_areas == Default(a.focus_areas, <<>>)
      focus_text  == IF Len(focus_areas) > 0 THEN <<"focus", focus_areas>> ELSE <<>>
  IN  IF ~HasAgent(w) THEN Ended(w, CreateAgentFirst, <<>>)
      ELSE SendPrompt(w, << "polish prompt", a.content, focus_text >>)

polish_content_ret(s, w, a, resp) == ReturnLastContent(w, resp, "polished content")

adjust_style_call(s, w, a) ==
  IF ~HasAgent(w) THEN Ended(w, CreateAgentFirst, <<>>)
  ELSE SendPrompt(w, << "adjust prompt", a.target_style, a.content, a.target_style >>)

adjust_style_ret(s, w, a, resp) == ReturnLastContent(w, resp, "adjusted content")

\* depth_instructions: the keys of the dict
Depths == {"shallow", "medium", "deep"}

research_topic_call(s, w, a) ==
  LET depth == Default(a.depth, "medium")
  IN  IF ~HasAgent(w) THEN Ended(w, CreateAgentFirst, <<>>)
      ELSE IF depth \notin Depths THEN Ended(w, Raise("KeyError", depth), <<>>)
      ELSE SendPrompt(w, << "research prompt", <<"instruction", depth>>, a.topic,
                            <<"instruction", depth>> >>)

research_topic_ret(s, w, a, resp) == ReturnLastContent(w, resp, "research result")

get_writing_progress_call(s, w, a) ==
  IF ~HasAgent(w) THEN Ended(w, Return([error |-> <<"agent not created">>]), <<>>)  \* "智能体未创建"
  ELSE Calling(w, Call(w.client, "agents.blocks.retrieve", w.agent.id,
                       "current_project", <<>>))

\* get_writing_progress without its try/except
get_writing_progress_ret_uncaught(s, w, a, resp) ==
  IF resp.ok
  THEN Finished(w, Return([current_project |-> resp.value.value,
                           agent_id |-> w.agent.id,
                           agent_name |-> w.agent.name]), <<>>)
  ELSE Finished(w, SdkError, <<>>)

get_writing_progress_ret(s, w, a, resp) ==
  IF resp.ok
  THEN Finished(w, Return([current_project |-> resp.value.value,
                           agent_id |-> w.agent.id,
                           agent_name |-> w.agent.name]), <<>>)
  ELSE Finished(w, Return([error |-> <<"get progress failed", resp.value>>]), <<>>)  \* "获取进度失败: {e}"

---------------------------------------------------------------------------
(* ultimate_simple.py: w is the module's pair (client, agent)              *)

\* create_writer testing `is None` in place of `not`
create_writer_call_is_none(env, w, a) ==
  IF env = None
  THEN Ended(w, Raise("ValueError", "DEEPSEEK_API_KEY must be set"),
             <<"key not found", "set the variable", "export", "restart the server">>)
  ELSE Calling(w, Call(Letta("http://localhost:8283", Unset, Unset),
                       "agents.create", 0, None,
                       [name |-> "deepseek_writer",
                        memory_blocks |->
                          <<CreateBlock("persona", Unset, <<"persona (deepseek)">>)>>,
                        model |-> "deepseek/deepseek-chat",
                        embedding |-> "ollama/nomic-embed-text:latest",
                        tools |-> Unset]))

\* create_writer(): env is os.getenv("DEEPSEEK_API_KEY")
create_writer_call(env, w, a) ==
  IF ~Truthy(env)
  THEN Ended(w, Raise("ValueError", "DEEPSEEK_API_KEY must be set"),
             <<"key not found", "set the variable", "export", "restart the server">>)
  ELSE Calling(w, Call(Letta("http://localhost:8283", Unset, Unset),
                       "agents.create", 0, None,
                       [name |-> "deepseek_writer",
                        memory_blocks |->
                          <<CreateBlock("persona", Unset, <<"persona (deepseek)">>)>>,
                        model |-> "deepseek/deepseek-chat",
                        embedding |-> "ollama/nomic-embed-text:latest",
                        tools |-> Unset]))

\* return client, agent; the caller binds the pair
create_writer_ret(env, w, a, resp) ==
  IF resp.ok
  THEN LET pair == [client |-> Letta("http://localhost:8283", Unset, Unset),
                    agent |-> resp.value]
       IN  Finished(pair, Return(pair), <<>>)
  ELSE Finished(w, SdkError, <<>>)

\* write_article(client, agent, topic)
write_article_call(w, a) ==
  Calling(w, Call(a.client, "agents.messages.create", a.agent.id, None,
                  <<MessageCreate("user", <<"write an article about", a.topic>>)>>))

\* write_article returning the first message's content when it is an assistant message
write_article_ret_first(w, a, resp) ==
  IF ~resp.ok THEN Finished(w, SdkError, <<>>)
  ELSE LET m == resp.value.messages
       IN  IF Len(m) = 0
           THEN Finished(w, Raise("IndexError", "list index out of range"), <<>>)
           ELSE IF m[1].message_type = "assistant_message"
           THEN Finished(w, Return(m[1].content), <<>>)
           ELSE Finished(w, Return("writing done"), <<>>)

\* content of the last message when it is an assistant message, else "写作完成"
write_article_ret(w, a, resp) ==
  IF ~resp.ok THEN Finished(w, SdkError, <<>>)
  ELSE LET m == resp.value.messages
       IN  IF Len(m) = 0
           THEN Finished(w, Raise("IndexError", "list index out of range"), <<>>)
           ELSE IF m[Len(m)].message_type = "assistant_message"
           THEN Finished(w, Return(m[Len(m)].content), <<>>)
           ELSE Finished(w, Return("writing done"), <<>>)

---------------------------------------------------------------------------
(* Dispatch                                                                *)

\* The functions each file has.
Methods(s) ==
  CASE s = "writing_agent" ->
         {"create_writing_agent", "start_writing_project", "generate_outline",
          "expand_content", "polish_content", "adjust_style", "research_topic",
          "get_writing_progress"}
    [] s = "writing_agent_local" ->
         {"create_writing_agent", "start_writing_project", "generate_outline",
          "expand_content", "get_writing_progress"}
    [] s = "ultimate_simple" -> {"create_writer", "write_article"}

Begin(s, op, w, a) ==
  CASE op = "create_writing_agent"  -> create_writing_agent_call(s, w, a)
    [] op = "start_writing_project" -> start_writing_project_call(s, w, a)
    [] op = "generate_outline"      -> generate_outline_call(s, w, a)
    [] op = "expand_content"        -> expand_content_call(s, w, a)
    [] op = "polish_content"        -> polish_content_call(s, w, a)
    [] op = "adjust_style"          -> adjust_style_call(s, w, a)
    [] op = "research_topic"        -> research_topic_call(s, w, a)
    [] op = "get_writing_progress"  -> get_writing_progress_call(s, w, a)
    [] op = "create_writer"         -> create_writer_call(environ, w, a)
    [] op = "write_article"         -> write_article_call(w, a)

Finish(s, op, w, a, resp) ==
  CASE op = "create_writing_agent"  -> create_writing_agent_ret(s, w, a, resp)
    [] op = "start_writing_project" -> start_writing_project_ret(s, w, a, resp)
    [] op = "generate_outline"      -> generate_outline_ret(s, w, a, resp)
    [] op = "expand_content"        -> expand_content_ret(s, w, a, resp)
    [] op = "polish_content"        -> polish_content_ret(s, w, a, resp)
    [] op = "adjust_style"          -> adjust_style_ret(s, w, a, resp)
    [] op = "research_topic"        -> research_topic_ret(s, w, a, resp)
    [] op = "get_writing_progress"  -> get_writing_progress_ret(s, w, a, resp)
    [] op = "create_writer"         -> create_writer_ret(environ, w, a, resp)
    [] op = "write_article"         -> write_article_ret(w, a, resp)

---------------------------------------------------------------------------
(* Calling the functions in any order                                      *)

\* Argument values the calls are made with
BaseUrlArgs == {Unset, "http://letta.example:9000"}
TokenArgs == {Unset, None, "", "sk-let-token"}
NameArgs == {Unset}
StyleArgs == {Unset, "", "casual"}
ProjectArgs ==
  {[project_name |-> "project P", project_type |-> "report",
    target_audience |-> "general public", requirements |-> Unset],
   [project_name |-> "project Q", project_type |-> "news",
    target_audience |-> "managers", requirements |-> "with case studies"]}
Times == {"2025-01-01 10:00:00"}
Topics == {"typhoons"}
StructureArgs == {Unset}
KeyPointArgs == {<<"history", "impact">>}
WordCountArgs == {Unset}
FocusArgs == {Unset, <<"fluency", "logic">>}
DepthArgs == {Unset, "extreme"}
EnvValues == {None, "", "sk-deepseek-key"}

\* The arguments main() constructs the WritingAgent with
MainCtor(s) ==
  IF s = "writing_agent" THEN [base_url |-> Unset, token |-> "sk-let-token"]
  ELSE [base_url |-> "http://localhost:8283", token |-> Unset]

\* main() is not running
Idle == [step |-> 0, phase |-> "idle", exc |-> None]

NoLocals ==
  [agent_id |-> None, outline |-> None, research |-> None, content |-> None,
   polished |-> None, adjusted |-> None, progress |-> None]

NotStarted == [n |-> 0, all_ok |-> TRUE, args |-> <<>>, created |-> <<>>]

\* The history after one handler ran: a new agent has no project call yet, a
\* start_writing_project call that reached the server is the latest one.
Record(h, op, a, call, resp) ==
  IF call.api = "agents.create" /\ resp.ok
  THEN [NotStarted EXCEPT !.created = BlocksOf(call.body.memory_blocks)]
  ELSE IF op = "start_writing_project"
  THEN [h EXCEPT !.n = IF h.n < 2 THEN h.n + 1 ELSE h.n,
                 !.all_ok = h.all_ok /\ resp.ok,
                 !.args = a]
  ELSE h

\* One whole call of function op with arguments a, its remote call included.
Invoke(op, a) ==
  /\ LET b == Begin(script, op, writer, a)
     IN  IF ~InCall(b)
         THEN /\ writer' = b.writer
              /\ last' = [op |-> op, args |-> a, pre |-> writer, calls |-> <<>>,
                          out |-> b.out, outcome |-> b.outcome]
              /\ UNCHANGED <<remote, started>>
         ELSE \E resp \in Responses(remote, b.call) :
                LET f == Finish(script, op, b.writer, a, resp)
                IN  /\ writer' = f.writer
                    /\ remote' = Apply(remote, b.call, resp)
                    /\ started' = Record(started, op, a, b.call, resp)
                    /\ last' = [op |-> op, args |-> a, pre |-> writer,
                                calls |-> <<[call |-> b.call, resp |-> resp]>>,
                                out |-> f.out, outcome |-> f.outcome]
  /\ UNCHANGED <<script, ctor, pc, locals, calls, stdout, environ>>

create_writing_agent ==
  /\ "create_writing_agent" \in Methods(script)
  /\ \E name \in NameArgs, style \in StyleArgs :
       Invoke("create_writing_agent", [name |-> name, style |-> style])

start_writing_project ==
  /\ "start_writing_project" \in Methods(script)
  /\ \E p \in ProjectArgs, t \in Times :
       Invoke("start_writing_project",
              [project_name |-> p.project_name, project_type |-> p.project_type,
               target_audience |-> p.target_audience, requirements |-> p.requirements,
               now |-> t])

generate_outline ==
  /\ "generate_outline" \in Methods(script)
  /\ \E t \in Topics, st \in StructureArgs :
       Invoke("generate_outline", [topic |-> t, structure_type |-> st])

expand_content ==
  /\ "expand_content" \in Methods(script)
  /\ \E k \in KeyPointArgs, n \in WordCountArgs :
       Invoke("expand_content", [section |-> "overview", key_points |-> k, word_count |-> n])

polish_content ==
  /\ "polish_content" \in Methods(script)
  /\ \E f \in FocusArgs :
       Invoke("polish_content", [content |-> "a draft", focus_areas |-> f])

adjust_style ==
  /\ "adjust_style" \in Methods(script)
  /\ Invoke("adjust_style", [content |-> "a draft", target_style |-> "easy to read"])

research_topic ==
  /\ "research_topic" \in Methods(script)
  /\ \E t \in Topics, d \in DepthArgs :
       Invoke("research_topic", [topic |-> t, depth |-> d])

get_writing_progress ==
  /\ "get_writing_progress" \in Methods(script)
  /\ Invoke("get_writing_progress", <<>>)

create_writer ==
  /\ "create_writer" \in Methods(script)
  /\ Invoke("create_writer", <<>>)

\* write_article is called with the pair create_writer returned
write_article ==
  /\ "write_article" \in Methods(script)
  /\ HasAgent(writer)
  /\ \E t \in Topics :
       Invoke("write_article", [client |-> writer.client, agent |-> writer.agent, topic |-> t])

\* A WritingAgent just constructed, or ultimate_simple.py before create_writer.
Init ==
  /\ script \in Scripts \cup {"ultimate_simple"}
  /\ environ \in EnvValues
  /\ ctor = IF script \in Scripts THEN MainCtor(script)
            ELSE [base_url |-> Unset, token |-> Unset]
  /\ script \in Scripts => environ = None
  /\ writer = IF script \in Scripts
              THEN WritingAgentInit(script, ctor.base_url, ctor.token)
              ELSE [client |-> None, agent |-> NoAgent]
  /\ remote = <<>>
  /\ started = NotStarted
  /\ last = [op |-> "__init__", args |-> ctor, pre |-> writer, calls |-> <<>>,
             out |-> <<>>, outcome |-> Return(None)]
  /\ pc = Idle
  /\ locals = NoLocals
  /\ calls = <<>>
  /\ stdout = <<>>

Next ==
  \/ create_writing_agent
  \/ start_writing_project
  \/ generate_outline
  \/ expand_content
  \/ polish_content
  \/ adjust_style
  \/ research_topic
  \/ get_writing_progress
  \/ create_writer
  \/ write_article

Spec == Init /\ [][Next]_vars

---------------------------------------------------------------------------
(* main() of writing_agent.py and writing_agent_local.py                   *)

\* The awaited calls of the try block, in order: the method, the local
\* variable its result is bound to, whether a separator line is printed first.
Step(op, var, sep) == [op |-> op, var |-> var, sep |-> sep]

MainProgram(s) ==
  IF s = "writing_agent"
  THEN << Step("create_writing_agent", "agent_id", FALSE),
          Step("start_writing_project", "none", FALSE),
          Step("generate_outline", "outline", TRUE),
          Step("research_topic", "research", TRUE),
          Step("expand_content", "content", TRUE),
          Step("polish_content", "polished", TRUE),
          Step("adjust_style", "adjusted", TRUE),
          Step("get_writing_progress", "progress", TRUE) >>
  ELSE << Step("create_writing_agent", "agent_id", FALSE),
          Step("start_writing_project", "none", FALSE),
          Step("generate_outline", "outline", TRUE),
          Step("expand_content", "content", TRUE),
          Step("get_writing_progress", "progress", TRUE) >>

\* The arguments main() passes to method op; l are main's local variables,
\* now is the clock when start_writing_project runs.
MainArgs(s, op, l, now) ==
  CASE op = "create_writing_agent" ->
         IF s = "writing_agent"
         THEN [name |-> "writer_agent_v3", style |-> "for academic and business writing"]
         ELSE [name |-> "writer_agent_v7", style |-> "for news writing"]
    [] op = "start_writing_project" ->
         IF s = "writing_agent"
         THEN [project_name |-> "AI technology report", project_type |-> "technical report",
               target_audience |-> "technical managers",
               requirements |-> "latest trends and case studies", now |-> now]
         ELSE [project_name |-> "typhoons", project_type |-> "news release",
               target_audience |-> "general public",
               requirements |-> "latest trends and their impact", now |-> now]
    [] op = "generate_outline" ->
         IF s = "writing_agent"
         THEN [topic |-> "AI trends and business", structure_type |-> "business"]
         ELSE [topic |-> "typhoon trends", structure_type |-> "standard"]
    [] op = "research_topic" -> [topic |-> "AI in business", depth |-> "medium"]
    [] op = "expand_content" ->
         IF s = "writing_agent"
         THEN [section |-> "AI overview",
               key_points |-> <<"machine learning", "deep learning",
                                "large language models", "commercialisation">>,
               word_count |-> "300"]
         ELSE [section |-> "typhoon overview",
               key_points |-> <<"history", "impact", "response">>,
               word_count |-> "300"]
    [] op = "polish_content" ->
         [content |-> l.content,
          focus_areas |-> <<"fluency", "logic", "professionalism">>]
    [] op = "adjust_style" -> [content |-> l.polished, target_style |-> "easy to read"]
    [] op = "get_writing_progress" -> <<>>

\* json.dumps(progress, indent=2, ensure_ascii=False): the keys of the dict
JsonDumps(d) ==
  IF "error" \in DOMAIN d THEN "{error}"
  ELSE "{current_project, agent_id, agent_name}"

\* The call started as a task that main does not wait for
AfterIssue_no_wait(step) == [step |-> step + 1, phase |-> "ready", exc |-> None]

\* `await writer.X(...)`: main goes on only when the call it issued is over.
AfterIssue(step) == [step |-> step, phase |-> "waiting", exc |-> None]

\* `except ValueError as e` in place of `except Exception as e`
Catches_ValueError(exc) == exc = "ValueError"

\* `except Exception as e`: every exception a call can raise is caught.
Catches(exc) == TRUE

\* Where main goes when the awaited method of step k is over, and what it prints.
AfterStep(s, k, outcome) ==
  IF outcome.kind = "raise" THEN [step |-> k, phase |-> "raised", exc |-> outcome.exc]
  ELSE IF k < Len(MainProgram(s)) THEN [step |-> k + 1, phase |-> "ready", exc |-> None]
  ELSE [step |-> k, phase |-> "final", exc |-> None]

Bind(l, var, outcome) ==
  IF outcome.kind = "return" /\ var # "none" THEN [l EXCEPT ![var] = outcome.value]
  ELSE l

\* print("📊 写作进度："); print(json.dumps(progress, ...)) after the last step
ProgressLines(s, k, outcome) ==
  IF outcome.kind = "return" /\ k = Len(MainProgram(s))
  THEN <<"progress:", JsonDumps(outcome.value)>> ELSE <<>>

Separator(st) == IF st.sep THEN <<"==========">> ELSE <<>>

\* main() calls the next method; the method runs up to its remote call.
MainIssue ==
  /\ pc.phase = "ready"
  /\ pc.step \in DOMAIN MainProgram(script)
  /\ \E now \in Times :
       LET st == MainProgram(script)[pc.step]
           a  == MainArgs(script, st.op, locals, now)
           b  == Begin(script, st.op, writer, a)
       IN  /\ writer' = b.writer
           /\ IF InCall(b)
              THEN /\ calls' = Append(calls, [step |-> pc.step, op |-> st.op, args |-> a,
                                              call |-> b.call, status |-> "pending"])
                   /\ pc' = AfterIssue(pc.step)
                   /\ stdout' = stdout \o Separator(st)
                   /\ UNCHANGED locals
              ELSE /\ pc' = AfterStep(script, pc.step, b.outcome)
                   /\ locals' = Bind(locals, st.var, b.outcome)
                   /\ stdout' = stdout \o Separator(st) \o b.out
                                  \o ProgressLines(script, pc.step, b.outcome)
                   /\ UNCHANGED calls
  /\ UNCHANGED <<script, ctor, remote, started, last, environ>>

\* A remote call returns or raises; the method that issued it runs to its end.
MainComplete ==
  \E i \in DOMAIN calls :
    /\ calls[i].status = "pending"
    /\ \E resp \in Responses(remote, calls[i].call) :
         LET e  == calls[i]
             st == MainProgram(script)[e.step]
             f  == Finish(script, e.op, writer, e.args, resp)
         IN  /\ writer' = f.writer
             /\ remote' = Apply(remote, e.call, resp)
             /\ calls' = [calls EXCEPT ![i].status =
                            IF resp.ok THEN "returned" ELSE "raised"]
             /\ pc' = AfterStep(script, e.step, f.outcome)
             /\ locals' = Bind(locals, st.var, f.outcome)
             /\ stdout' = stdout \o f.out \o ProgressLines(script, e.step, f.outcome)
    /\ UNCHANGED <<script, ctor, started, last, environ>>

\* An exception leaves the try block: print(f"❌ 错误: {e}") when it is caught,
\* else it leaves main() and the run ends.
MainExcept ==
  /\ pc.phase = "raised"
  /\ IF Catches(pc.exc)
     THEN /\ pc' = [pc EXCEPT !.phase = "final"]
          /\ stdout' = Append(stdout, "error:")
     ELSE /\ pc' = [pc EXCEPT !.phase = "crashed"]
          /\ UNCHANGED stdout
  /\ UNCHANGED <<script, writer, ctor, remote, started, last, locals, calls, environ>>

\* print("\n✅ 写作智能体演示完成！")
MainFinal ==
  /\ pc.phase = "final"
  /\ pc' = [pc EXCEPT !.phase = "done"]
  /\ stdout' = Append(stdout, "demo complete")
  /\ UNCHANGED <<script, writer, ctor, remote, started, last, locals, calls, environ>>

\* main() after print("🚀 启动写作智能体演示...") and writer = WritingAgent(...)
MainInit ==
  /\ script \in Scripts
  /\ environ = None
  /\ ctor = MainCtor(script)
  /\ writer = WritingAgentInit(script, ctor.base_url, ctor.token)
  /\ remote = <<>>
  /\ started = NotStarted
  /\ last = [op |-> "__init__", args |-> ctor, pre |-> writer, calls |-> <<>>,
             out |-> <<>>, outcome |-> Return(None)]
  /\ pc = [step |-> 1, phase |-> "ready", exc |-> None]
  /\ locals = NoLocals
  /\ calls = <<>>
  /\ stdout = <<"demo starting">>

MainNext == MainIssue \/ MainComplete \/ MainExcept \/ MainFinal

MainSpec == MainInit /\ [][MainNext]_vars

\* Every remote call returns or raises, and main() is run to its end.
MainFairSpec == MainSpec /\ WF_vars(MainNext)

---------------------------------------------------------------------------
(* WritingAgent.__init__ with any arguments, then the calls that use the   *)
(* client it built                                                         *)

CtorInit ==
  /\ script \in Scripts
  /\ environ = None
  /\ ctor \in [base_url : BaseUrlArgs, token : TokenArgs]
  /\ writer = WritingAgentInit(script, ctor.base_url, ctor.token)
  /\ remote = <<>>
  /\ started = NotStarted
  /\ last = [op |-> "__init__", args |-> ctor, pre |-> writer, calls |-> <<>>,
             out |-> <<>>, outcome |-> Return(None)]
  /\ pc = Idle
  /\ locals = NoLocals
  /\ calls = <<>>
  /\ stdout = <<>>

CtorNext == create_writing_agent \/ get_writing_progress

CtorSpec == CtorInit /\ [][CtorNext]_vars

---------------------------------------------------------------------------
(* Properties of WritingAgent, of the calls made in any order (Spec)       *)

\* The methods that begin with `if not self.agent: raise ValueError(...)`
GuardedOps ==
  {"start_writing_project", "generate_outline", "expand_content",
   "polish_content", "adjust_style", "research_topic"}

\* The methods that send one prompt
PromptOps ==
  {"generate_outline", "expand_content", "polish_content", "adjust_style",
   "research_topic"}

OnlyCall == last.calls[1]

\* C1: while no create_writing_agent call has succeeded (self.agent is None),
\* each of start_writing_project, generate_outline, expand_content,
\* polish_content, adjust_style and research_topic raises the same
\* ValueError("create the writing agent first") from its local check, issues
\* no remote call and leaves the object as it was; and a message or block
\* call is only ever issued once an agents.create call has returned, for an
\* agent the server knows.
C1_NoAgentNoRemoteCall ==
  script \in Scripts =>
    /\ (last.op \in GuardedOps /\ last.pre.agent = NoAgent) =>
         /\ last.outcome.kind = "raise"
         /\ last.outcome.exc = "ValueError"
         /\ last.outcome.value = "create the writing agent first"
         /\ last.calls = <<>>
         /\ writer = last.pre
    /\ \A i \in DOMAIN last.calls :
         last.calls[i].call.api # "agents.create" =>
           /\ last.pre.agent # NoAgent
           /\ Len(remote) > 0
           /\ last.calls[i].call.agent_id \in 1..Len(remote)

\* C1 witness: research_topic called with an invalid depth on an object whose
\* only create_writing_agent call failed after changing the style.
C1_Witness ==
  /\ script = "writing_agent"
  /\ last.op = "research_topic"
  /\ last.args.depth = "extreme"
  /\ last.pre.agent = NoAgent
  /\ last.pre.writing_style = "casual"
  /\ last.outcome.exc = "ValueError"

\* The text start_writing_project builds from arguments a
ExpectedProjectInfo(a) ==
  << "project info", a.project_name, a.project_type, a.target_audience,
     IF a.requirements \in {Unset, None, ""} THEN "none" ELSE a.requirements,
     a.now >>

\* C3: after start_writing_project calls on a created agent whose
\* blocks.modify calls all succeeded, the remote current_project block of the
\* agent is exactly the project_info text of the last call, its persona and
\* writing_skills blocks are as they were created, and a get_writing_progress
\* call whose retrieve succeeds returns that text as current_project, with the
\* id of the held agent as agent_id.
C3_BlockOverwrittenWholesale ==
  (script \in Scripts /\ writer.agent # NoAgent /\ started.n > 0 /\ started.all_ok) =>
    LET blocks == remote[writer.agent.id]
    IN  /\ blocks.current_project = ExpectedProjectInfo(started.args)
        /\ blocks.persona = started.created.persona
        /\ blocks.writing_skills = started.created.writing_skills
        /\ (last.op = "get_writing_progress" /\ OnlyCall.resp.ok) =>
             /\ last.outcome.kind = "return"
             /\ last.outcome.value.current_project = ExpectedProjectInfo(started.args)
             /\ last.outcome.value.agent_id = writer.agent.id

\* C3 witness: two or more projects were started, the last is project Q, and
\* get_writing_progress has just read the block.
C3_Witness ==
  /\ script \in Scripts
  /\ writer.agent # NoAgent
  /\ started.n = 2
  /\ started.all_ok
  /\ started.args.project_name = "project Q"
  /\ last.op = "get_writing_progress"
  /\ OnlyCall.resp.ok
  /\ last.outcome.value.current_project[2] = "project Q"

\* C5: on a created agent each of generate_outline, expand_content,
\* polish_content, adjust_style and research_topic (with a valid depth)
\* issues exactly one remote call, an agents.messages.create addressed to the
\* held agent with exactly one message, of role "user"; when it returns, it
\* returns the content of the last message of the response; the object and
\* the server's blocks are as before.
C5_OnePromptOneCall ==
  ( /\ script \in Scripts
    /\ last.op \in PromptOps
    /\ last.pre.agent # NoAgent
    /\ (last.op = "research_topic" =>
          last.args.depth \in {Unset, "shallow", "medium", "deep"}) ) =>
    /\ Len(last.calls) = 1
    /\ OnlyCall.call.api = "agents.messages.create"
    /\ OnlyCall.call.agent_id = last.pre.agent.id
    /\ Len(OnlyCall.call.body) = 1
    /\ OnlyCall.call.body[1].role = "user"
    /\ writer = last.pre
    /\ (last.outcome.kind = "return" <=>
          (OnlyCall.resp.ok /\ Len(OnlyCall.resp.value.messages) > 0))
    /\ last.outcome.kind = "return" =>
         LET m == OnlyCall.resp.value.messages
         IN  last.outcome.value = m[Len(m)].content

\* C5 witness: adjust_style got two messages back and returned the second.
C5_Witness ==
  /\ script = "writing_agent"
  /\ last.op = "adjust_style"
  /\ last.outcome.kind = "return"
  /\ Len(OnlyCall.resp.value.messages) = 2
  /\ last.outcome.value = "text B"

\* C9: get_writing_progress never raises and never changes the object; with
\* no agent it returns {"error": "agent not created"} without a remote call;
\* with an agent it issues exactly one agents.blocks.retrieve for the label
\* "current_project" of the held agent and returns the three keys
\* current_project, agent_id, agent_name, or, when the call fails, a dict
\* with the single key "error".
C9_ProgressNeverRaises ==
  (script \in Scripts /\ last.op = "get_writing_progress") =>
    /\ last.outcome.kind = "return"
    /\ writer = last.pre
    /\ last.pre.agent = NoAgent =>
         /\ last.calls = <<>>
         /\ last.outcome.value = [error |-> <<"agent not created">>]
    /\ last.pre.agent # NoAgent =>
         /\ Len(last.calls) = 1
         /\ OnlyCall.call.api = "agents.blocks.retrieve"
         /\ OnlyCall.call.block_label = "current_project"
         /\ OnlyCall.call.agent_id = last.pre.agent.id
         /\ OnlyCall.resp.ok =>
              DOMAIN last.outcome.value = {"current_project", "agent_id", "agent_name"}
         /\ ~OnlyCall.resp.ok => DOMAIN last.outcome.value = {"error"}

\* C9 witness: the retrieve call of get_writing_progress failed.
C9_Witness ==
  /\ script \in Scripts
  /\ last.op = "get_writing_progress"
  /\ last.pre.agent # NoAgent
  /\ ~OnlyCall.resp.ok
  /\ last.outcome.kind = "return"

\* C11: on a created agent start_writing_project always returns, whether
\* its agents.blocks.modify call returns or raises; it makes that one call,
\* for the label current_project of the held agent, and ends with the local
\* current_project equal to project_name; when the call raises, the failure
\* is printed by _update_memory_block, the lines of the project follow, and
\* the server's blocks are as they were before the call.
C11_StartProjectSurvivesFailedUpdate ==
  [][ ( /\ script \in Scripts
        /\ last'.op = "start_writing_project"
        /\ last'.pre.agent # NoAgent ) =>
        /\ last'.pre = writer
        /\ last'.outcome.kind = "return"
        /\ Len(last'.calls) = 1
        /\ last'.calls[1].call.api = "agents.blocks.modify"
        /\ last'.calls[1].call.block_label = "current_project"
        /\ last'.calls[1].call.agent_id = writer.agent.id
        /\ writer'.current_project = last'.args.project_name
        /\ writer'.agent = writer.agent
        /\ writer'.writing_style = writer.writing_style
        /\ ~last'.calls[1].resp.ok =>
             /\ remote' = remote
             /\ last'.out[1] = "memory block update failed"
             /\ last'.out[2] = "project started"
        /\ last'.calls[1].resp.ok =>
             /\ remote'[writer.agent.id].current_project =
                  ExpectedProjectInfo(last'.args)
             /\ last'.out[1] = "project started" ]_vars

\* C11 witness: the update for project Q failed; the object names project Q
\* while the remote block still holds the text of project P.
C11_Witness ==
  /\ script \in Scripts
  /\ last.op = "start_writing_project"
  /\ last.pre.agent # NoAgent
  /\ ~OnlyCall.resp.ok
  /\ last.outcome.kind = "return"
  /\ writer.current_project = "project Q"
  /\ Len(remote[writer.agent.id].current_project) > 1
  /\ remote[writer.agent.id].current_project[2] = "project P"

\* C12: create_writing_agent issues its agents.create call whether or not
\* an agent is held; when the call returns, the held agent is the one it
\* returned, the newest on the server; when it raises, the held agent is as
\* before (None or the earlier agent); every messages.create, blocks.modify
\* and blocks.retrieve call carries the id of the agent created last; a
\* non-empty style replaces writing_style before the call, whether the call
\* returns or raises, an omitted or empty style keeps the earlier one, and
\* the persona block of the request carries the resulting writing_style.
C12_RecreationReplacesAgent ==
  script \in Scripts =>
    /\ writer.agent = NoAgent <=> remote = <<>>
    /\ writer.agent # NoAgent => writer.agent.id = Len(remote)
    /\ \A i \in DOMAIN last.calls :
         last.calls[i].call.api # "agents.create" =>
           /\ last.calls[i].call.agent_id = Len(remote)
           /\ last.calls[i].call.agent_id = writer.agent.id
    /\ last.op = "create_writing_agent" =>
         /\ Len(last.calls) = 1
         /\ OnlyCall.call.api = "agents.create"
         /\ OnlyCall.resp.ok =>
              /\ last.outcome.kind = "return"
              /\ writer.agent = OnlyCall.resp.value
              /\ writer.agent.id = last.pre.agent.id + 1
              /\ last.outcome.value = writer.agent.id
         /\ ~OnlyCall.resp.ok =>
              /\ last.outcome.kind = "raise"
              /\ writer.agent = last.pre.agent
         /\ writer.writing_style =
              IF last.args.style \in {Unset, None, ""} THEN last.pre.writing_style
              ELSE last.args.style
         /\ OnlyCall.call.body.memory_blocks[1].label = "persona"
         /\ OnlyCall.call.body.memory_blocks[1].value[2] = writer.writing_style
         /\ writer.current_project = last.pre.current_project

\* C12 witness: a second agent was created with style omitted; the first has
\* the default style in its persona, so "casual" came from a
\* create_writing_agent call that raised in between, and it is the style of
\* the new agent's persona.
C12_Witness ==
  /\ script \in Scripts
  /\ last.op = "create_writing_agent"
  /\ last.args.style = Unset
  /\ OnlyCall.resp.ok
  /\ last.pre.agent.id = 1
  /\ writer.agent.id = 2
  /\ remote[1].persona[2] = "professional, clear, logical"
  /\ writer.writing_style = "casual"
  /\ remote[2].persona[2] = "casual"

---------------------------------------------------------------------------
(* Properties of ultimate_simple.py (Spec)                                 *)

\* C6 as stated: write_article sends one user message to the given agent and
\* returns the content of the last message of every non-empty response.
C6_ReturnsLastContent ==
  ( /\ script = "ultimate_simple"
    /\ last.op = "write_article"
    /\ OnlyCall.resp.ok
    /\ Len(OnlyCall.resp.value.messages) > 0 ) =>
    LET m == OnlyCall.resp.value.messages
    IN  /\ last.outcome.kind = "return"
        /\ last.outcome.value = m[Len(m)].content

\* C6 amended: write_article sends exactly one agents.messages.create call to
\* the given agent with one message of role "user"; for a non-empty response
\* it returns the content of the last message when that message is an
\* assistant_message, and the fixed text "writing done" otherwise.
C6_LastContentIfAssistant ==
  (script = "ultimate_simple" /\ last.op = "write_article") =>
    /\ Len(last.calls) = 1
    /\ OnlyCall.call.api = "agents.messages.create"
    /\ OnlyCall.call.agent_id = last.args.agent.id
    /\ OnlyCall.call.client = last.args.client
    /\ Len(OnlyCall.call.body) = 1
    /\ OnlyCall.call.body[1].role = "user"
    /\ (OnlyCall.resp.ok /\ Len(OnlyCall.resp.value.messages) > 0) =>
         LET m == OnlyCall.resp.value.messages
         IN  /\ last.outcome.kind = "return"
             /\ last.outcome.value =
                  IF m[Len(m)].message_type = "assistant_message"
                  THEN m[Len(m)].content ELSE "writing done"

\* C6 witness: the last message of the response is a tool return, and
\* write_article returned the fixed text.
C6_Witness ==
  /\ script = "ultimate_simple"
  /\ last.op = "write_article"
  /\ OnlyCall.resp.ok
  /\ OnlyCall.resp.value.messages = <<AssistantMessage, ToolReturnMessage>>
  /\ last.outcome.value = "writing done"

\* C8: when DEEPSEEK_API_KEY is unset or empty, create_writer raises
\* ValueError without a client, without an agents.create call, and no remote
\* agent exists; when it is set, create_writer makes exactly one agents.create
\* call and, when that returns, returns the pair of the client it built and
\* the agent the call returned.
C8_CreateWriterGated ==
  script = "ultimate_simple" =>
    /\ environ \in {None, ""} => remote = <<>> /\ writer.client = None
    /\ last.op = "create_writer" =>
         IF environ \in {None, ""}
         THEN /\ last.outcome.kind = "raise"
              /\ last.outcome.exc = "ValueError"
              /\ last.calls = <<>>
              /\ writer = last.pre
         ELSE /\ Len(last.calls) = 1
              /\ OnlyCall.call.api = "agents.create"
              /\ OnlyCall.resp.ok =>
                   /\ last.outcome.kind = "return"
                   /\ last.outcome.value.agent = OnlyCall.resp.value
                   /\ last.outcome.value.client = OnlyCall.call.client
                   /\ OnlyCall.resp.value.id = Len(remote)

\* C8 witness: create_writer was called with DEEPSEEK_API_KEY set to "".
C8_Witness ==
  /\ script = "ultimate_simple"
  /\ environ = ""
  /\ last.op = "create_writer"
  /\ last.outcome.exc = "ValueError"

---------------------------------------------------------------------------
(* Properties of WritingAgent.__init__ (CtorSpec)                          *)

\* C7: the client is built from exactly one input: from the token alone when
\* the token is non-empty (base_url is not passed on), else from base_url,
\* which defaults to http://localhost:8283; the new object has agent = None
\* and current_project = None; every remote call goes through that client.
C7_ClientFromOneInput ==
  /\ ctor.token \notin {Unset, None, ""} =>
       /\ writer.client.token = ctor.token
       /\ writer.client.base_url = Unset
  /\ ctor.token \in {Unset, None, ""} =>
       /\ writer.client.token = Unset
       /\ writer.client.base_url =
            IF ctor.base_url = Unset THEN "http://localhost:8283" ELSE ctor.base_url
  /\ last.op = "__init__" => writer.agent = NoAgent /\ writer.current_project = None
  /\ \A i \in DOMAIN last.calls : last.calls[i].call.client = writer.client

\* C7 witness: constructed with a token and a base_url, the object issued a
\* remote call through a client that has the token and no base_url.
C7_Witness ==
  /\ ctor.token = "sk-let-token"
  /\ ctor.base_url = "http://letta.example:9000"
  /\ last.op = "create_writing_agent"
  /\ OnlyCall.call.client.base_url = Unset
  /\ OnlyCall.call.client.token = "sk-let-token"

---------------------------------------------------------------------------
(* Properties of main() (MainSpec, MainFairSpec)                           *)

\* The SDK method each WritingAgent method calls
MainCallApi(op) ==
  CASE op = "create_writing_agent" -> "agents.create"
    [] op = "start_writing_project" -> "agents.blocks.modify"
    [] op = "get_writing_progress" -> "agents.blocks.retrieve"
    [] OTHER -> "agents.messages.create"

Printed(line) == \E i \in DOMAIN stdout : stdout[i] = line

Pending == {i \in DOMAIN calls : calls[i].status = "pending"}

\* C2 as stated: once a remote call of main() has failed, no further remote
\* call is issued, and the run ends with an error message printed.
C2_AnyFailureEndsDemo ==
  /\ \A i, j \in DOMAIN calls : i < j => calls[i].status # "raised"
  /\ (pc.phase = "done" /\ \E i \in DOMAIN calls : calls[i].status = "raised") =>
       \/ Printed("error:")
       \/ Printed("memory block update failed")
       \/ Printed("{error}")

\* C2 amended: a failure of agents.create or agents.messages.create leaves
\* the method, is caught by main's handler, which prints the error, and no
\* further remote call is issued; a failure of agents.blocks.modify is caught
\* inside _update_memory_block, which prints a message, and the demo goes on;
\* a failure of agents.blocks.retrieve is caught inside get_writing_progress
\* and main prints the error dict it returns, after which no further remote
\* call is issued.
C2_FailureHandling ==
  \A i \in DOMAIN calls :
    calls[i].status = "raised" =>
      CASE calls[i].call.api \in {"agents.create", "agents.messages.create"} ->
             /\ i = Len(calls)
             /\ pc.step = calls[i].step
             /\ pc.phase \in {"raised", "final", "done"}
             /\ pc.phase \in {"final", "done"} => Printed("error:")
        [] calls[i].call.api = "agents.blocks.modify" ->
             /\ Printed("memory block update failed")
             /\ Printed("project started")
             /\ writer.current_project # None
             /\ pc.step > calls[i].step
        [] calls[i].call.api = "agents.blocks.retrieve" ->
             /\ i = Len(calls)
             /\ pc.phase \in {"final", "done"}
             /\ Printed("{error}")

\* C2 witness: blocks.modify failed, later remote calls were issued, and the
\* run reached its end without main's handler.
C2_Witness ==
  /\ pc.phase = "done"
  /\ Len(calls) > 2
  /\ calls[2].call.api = "agents.blocks.modify"
  /\ calls[2].status = "raised"
  /\ calls[Len(calls)].status = "returned"
  /\ ~Printed("error:")

\* C4: the remote calls of main() are issued one at a time in program order:
\* at most one is outstanding, every call but the latest has returned or
\* raised, main waits at the step whose call is outstanding, the calls are in
\* the order of the steps, and the first is agents.create.
C4_OneCallAtATime ==
  /\ Cardinality(Pending) <= 1
  /\ \A i \in Pending : i = Len(calls) /\ pc.phase = "waiting" /\ pc.step = calls[i].step
  /\ \A i, j \in DOMAIN calls : i < j => calls[i].step < calls[j].step
  /\ calls # <<>> => calls[1].call.api = "agents.create"
  /\ \A i \in DOMAIN calls :
       calls[i].call.api = MainCallApi(calls[i].op)

\* C4 witness: the third remote call is outstanding.
C4_Witness ==
  /\ Len(calls) = 3
  /\ Pending = {3}
  /\ calls[1].status = "returned"

\* C10: every run of main() reaches the final print "demo complete",
\* whichever remote call raises and at whichever step, when every remote call
\* returns or raises.
C10_MainReachesFinalPrint ==
  <>(pc.phase = "done" /\ stdout[Len(stdout)] = "demo complete")

\* C10 witness: main ended after agents.messages.create raised in its fourth call.
C10_Witness ==
  /\ pc.phase = "done"
  /\ Len(calls) = 4
  /\ calls[4].status = "raised"
  /\ stdout[Len(stdout)] = "demo complete"

===========================================================================
